---- MODULE Spec2Model ----
(***************************************************************************)
(* Scoring, rally and game rules of the table-tennis referee simulation    *)
(* (engine/referee.py, engine/game.py, engine/physics.py,                  *)
(* engine/camera.py).                                                     *)
(*                                                                         *)
(*   SpecScore : create_match() followed by any sequence of score_point    *)
(*   SpecRally : one call of simulate_rally(p1, p2, server)                *)
(*   SpecGame  : one call of simulate_game(p1, p2)                         *)
(*   SpecPhysics : one call of simulate(initial_state, dt, max_time)       *)
(*   SpecReferee : detect_bounces, detect_net, detect_out on camera frames *)
(*   SpecCamera  : one call of _find_position_at_time(positions, t)        *)
(***************************************************************************)
EXTENDS Integers, Sequences, FiniteSets, TLC

VARIABLES
    match,            \* the Match value held by the caller (types.py Match)
    extra,            \* number of score_point calls made on a Match with a winner
    rallies,          \* simulate_game: the list of rally results so far
    gpc,              \* simulate_game: "loop" while in the while loop, "done" once returned
    server,           \* simulate_rally: the server argument
    let_attempt,      \* simulate_rally: serve attempts started (index of the serve for-loop)
    shots,            \* simulate_rally: the shots list
    events,           \* simulate_rally: the events of the last simulated shot
    current_hitter,   \* simulate_rally: side of the player who struck the last shot
    current_receiver, \* simulate_rally: side of the other player
    rally_num,        \* simulate_rally: iterations of the rally for-loop started
    reach_checks,     \* simulate_rally: number of can_reach evaluations made
    rpc,              \* simulate_rally: position in the function
    result,           \* simulate_rally: the RallyResult returned, NoResult before
    steps,            \* simulate: steps = int(max_time / dt)
    state,            \* simulate: the BallState being integrated
    positions,        \* simulate: the list of snapshots
    all_events,       \* simulate: the list of events
    events_t,         \* simulate: t of the last event of all_events (NoTime if none)
    bounce_count,     \* simulate: bounces counted so far
    sim_i,            \* simulate: iterations of the for-loop that ran their body
    net_crossings,    \* simulate: steps in which the ball came to, left or crossed x = 0
    spc,              \* simulate: "loop" while in the for-loop, "done" once returned
    frames,           \* referee: the list of CameraFrame handed to detect_*
    bounces,          \* referee: what detect_bounces(frames) returned
    net_events,       \* referee: what detect_net(frames) returned
    is_out,           \* referee: what detect_out(frames) returned
    jpc,              \* referee: "frames" while frames arrive, "judged" after detect_*
    cam_positions,    \* _find_position_at_time: the t of each BallState of positions
    cam_t,            \* _find_position_at_time: the argument t
    lo,               \* _find_position_at_time: lo, counted from 1
    hi,               \* _find_position_at_time: hi, counted from 1
    found,            \* _find_position_at_time: the t of the state returned
    cpc               \* _find_position_at_time: position in the function

matchVars == <<match, extra>>
gameVars  == <<rallies, gpc>>
rallyVars == <<server, let_attempt, shots, events, current_hitter, current_receiver,
               rally_num, reach_checks, rpc, result>>
simVars   == <<steps, state, positions, all_events, events_t, bounce_count,
               sim_i, net_crossings, spc>>
refVars   == <<frames, bounces, net_events, is_out, jpc>>
camVars   == <<cam_positions, cam_t, lo, hi, found, cpc>>
vars == <<match, extra, rallies, gpc, server, let_attempt, shots, events,
          current_hitter, current_receiver, rally_num, reach_checks, rpc, result,
          steps, state, positions, all_events, events_t, bounce_count,
          sim_i, net_crossings, spc,
          frames, bounces, net_events, is_out, jpc,
          cam_positions, cam_t, lo, hi, found, cpc>>

----------------------------------------------------------------------------
(* Bounds of the model *)

\* score_point is called on matches with fewer than MaxPoints points played
MaxPoints == 22
\* score_point is called at most MaxExtra times on a match that has a winner
MaxExtra == 2
\* a simulated shot produces at most MaxEvents physics events
MaxEvents == 3
\* simulate is called with int(max_time / dt) <= MaxSteps
MaxSteps == 22
\* one step of simulate moves the ball by at most MaxMove zones in x and in z
MaxMove == 1
\* the simulated ball changes between x < 0, x = 0 and x > 0 at most
\* MaxCrossings times
MaxCrossings == 1
\* frames handed to the referee functions
MaxFrames == 4
\* samples of a trajectory the camera looks a time up in, and their latest t
MaxSamples == 3
MaxTime == 4

----------------------------------------------------------------------------
(* engine/types.py, engine/referee.py : Match and score_point *)

\* Optional[int] None of Match.winner
None == 0

Sides == {"left", "right"}

\* Match() with its dataclass defaults; create_match() returns it
create_match ==
    [p1_score |-> 0, p2_score |-> 0, server |-> 1, serve_count |-> 0,
     history |-> <<>>, deuce |-> FALSE, winner |-> None]

\* variant: the early return on a finished game is missing
GameOverIgnored(m) == FALSE

\* referee.py 159: the game is already over
GameOver(m) == m.winner # None

\* referee.py 175: m.deuce = m.p1_score >= 10 and m.p2_score >= 10
IsDeuce(p1, p2) == p1 >= 10 /\ p2 >= 10

\* variant: the deuce interval is forgotten
ServeIntervalAlwaysTwo(deuce) == 2

\* referee.py 176: interval = 1 if m.deuce else 2
ServeInterval(deuce) == IF deuce THEN 1 ELSE 2

\* variant: > instead of >=
MustRotateLate(count, interval) == count > interval

\* referee.py 178: if m.serve_count >= interval
MustRotate(count, interval) == count >= interval

\* referee.py 179: m.server = 2 if m.server == 1 else 1
OtherServer(s) == IF s = 1 THEN 2 ELSE 1

\* variant: a lead of one point is enough
CheckWinnerLeadOne(p1, p2, w) ==
    LET w1 == IF p1 >= 11 /\ p1 - p2 >= 1 THEN 1 ELSE w
    IN  IF p2 >= 11 /\ p2 - p1 >= 1 THEN 2 ELSE w1

\* variant: a player must pass 11 points to win
CheckWinnerAboveEleven(p1, p2, w) ==
    LET w1 == IF p1 > 11 /\ p1 - p2 >= 2 THEN 1 ELSE w
    IN  IF p2 > 11 /\ p2 - p1 >= 2 THEN 2 ELSE w1

\* variant: a lead of three points is needed
CheckWinnerLeadThree(p1, p2, w) ==
    LET w1 == IF p1 >= 11 /\ p1 - p2 >= 3 THEN 1 ELSE w
    IN  IF p2 >= 11 /\ p2 - p1 >= 3 THEN 2 ELSE w1

\* referee.py 183-186: the two winner checks, in order
CheckWinner(p1, p2, w) ==
    LET w1 == IF p1 >= 11 /\ p1 - p2 >= 2 THEN 1 ELSE w
    IN  IF p2 >= 11 /\ p2 - p1 >= 2 THEN 2 ELSE w1

\* variant: the point goes to the player on whose side the ball was scored
PointToP2OwnSide(side) == side = "right"

\* referee.py 162-165: ball scored on the left = P2's point, else P1's
PointToP2(side) == side = "left"

\* variant: the record names the player who did not serve the point
HistoryRecordOtherServer(p1, p2, srv, side) ==
    [p1 |-> p1, p2 |-> p2, server |-> OtherServer(srv), side |-> side]

\* referee.py 167-172: the record appended to history
HistoryRecord(p1, p2, srv, side) ==
    [p1 |-> p1, p2 |-> p2, server |-> srv, side |-> side]

\* referee.py 138-188
score_point(m, side) ==
    IF GameOver(m) THEN m
    ELSE
      LET p2   == IF PointToP2(side) THEN m.p2_score + 1 ELSE m.p2_score
          p1   == IF PointToP2(side) THEN m.p1_score ELSE m.p1_score + 1
          hist == Append(m.history, HistoryRecord(p1, p2, m.server, side))
          cnt  == m.serve_count + 1
          deuce == IsDeuce(p1, p2)
          rot  == MustRotate(cnt, ServeInterval(deuce))
      IN  [p1_score    |-> p1,
           p2_score    |-> p2,
           server      |-> IF rot THEN OtherServer(m.server) ELSE m.server,
           serve_count |-> IF rot THEN 0 ELSE cnt,
           history     |-> hist,
           deuce       |-> deuce,
           winner      |-> CheckWinner(p1, p2, m.winner)]

----------------------------------------------------------------------------
(* engine/physics.py : the event list simulate() returns *)

\* BounceEvent(side), NetEvent(clipped), OutEvent; pos and t are not modelled
BounceEvent(side)  == [type |-> "bounce", side |-> side, clipped |-> FALSE]
NetEvent(clipped)  == [type |-> "net", side |-> "none", clipped |-> clipped]
OutEvent           == [type |-> "out", side |-> "none", clipped |-> FALSE]

EventKinds ==
    {BounceEvent("left"), BounceEvent("right"), NetEvent(TRUE), NetEvent(FALSE),
     OutEvent}

\* physics.py 209: max_bounces = 10
max_bounces == 10

\* physics.py 160, 179, 191: the events that set curr.alive = False
KillsBall(e) == (e.type = "net" /\ ~e.clipped) \/ e.type = "out"

\* physics.py 214-247: one step appends its bounce, then its net event, then up
\* to two out events; no step runs once the ball is dead, and the ball is
\* declared dead once more than max_bounces bounces were counted
SimulateCanReturn(ev) ==
    /\ \A i \in 1..Len(ev) : \A j \in 1..Len(ev) :
           (i < j /\ KillsBall(ev[i])) => ev[j].type = "out"
    /\ Cardinality({i \in 1..Len(ev) : ev[i].type = "out"}) <= 2
    /\ Cardinality({i \in 1..Len(ev) : ev[i].type = "bounce"}) <= max_bounces + 1

\* the event lists simulate() can return, up to MaxEvents events
PhysicsEvents ==
    {ev \in UNION {[1..n -> EventKinds] : n \in 0..MaxEvents} : SimulateCanReturn(ev)}

----------------------------------------------------------------------------
(* engine/physics.py : simulate and its collision checks.  Positions are    *)
(* kept as zones cut at the thresholds the checks compare with; velocity    *)
(* and spin, which the checks only write, are not modelled, and t counts    *)
(* steps of dt.                                                             *)

\* pos.x: 0 is x = 0, +-1 is 0 < |x| <= half_l, +-2 is half_l < |x| <= half_l +
\* OUT_OF_BOUNDS_MARGIN, +-3 is beyond (physics.py 67, 184-186)
XZones == -3..3
\* |pos.y|: 0 is <= half_w, 1 is <= half_w + NET_OVERHANG, 2 is <= half_w +
\* OUT_OF_BOUNDS_MARGIN, 3 is beyond (physics.py 68, 124, 187)
YZones == 0..3
\* pos.z: 0 is z < BALL_RADIUS, 1 is <= bounce_z, 2 is < clip_zone_bottom,
\* 3 is < clip_zone_top, 4 is at or above it (physics.py 65, 125-127, 175)
ZZones == 0..4

\* types.py 38-56: BallState
BallState(x, y, z, alive, t) == [x |-> x, y |-> y, z |-> z, alive |-> alive, t |-> t]

\* physics.py 214, 240: state.copy() as kept in positions
Snapshot(s) == [alive |-> s.alive, t |-> s.t]

\* physics.py 70, 176: abs(pos.x) <= half_l and abs(pos.y) <= half_w
OnTable(s) == s.x \in {-1, 0, 1} /\ s.y = 0

\* zones between two x zones; x = 0 is a single point, so 1 and -1 are neighbours
XDist(x, nx) == IF x * nx < 0 THEN (IF x < 0 THEN nx - x ELSE x - nx) - 1
                ELSE IF x < nx THEN nx - x ELSE x - nx

\* the ball is left of, on or right of the net plane
Sgn(x) == IF x < 0 THEN -1 ELSE IF x > 0 THEN 1 ELSE 0

\* physics.py 224-233: the positions one integration step can reach
Moves(s) ==
    {p \in XZones \X ZZones :
        /\ XDist(s.x, p[1]) <= MaxMove
        /\ p[2] - s.z <= MaxMove
        /\ s.z - p[2] <= MaxMove}

\* what a collision check returns: the state and the events of the step
Checked(curr, evs) == [curr |-> curr, events |-> evs]

\* physics.py 60-112
check_table_bounce(prev, curr) ==
    IF prev.z >= 2 /\ curr.z <= 1 /\ OnTable(curr)
    THEN Checked([curr EXCEPT !.z = 1],
                 <<BounceEvent(IF curr.x < 0 THEN "left" ELSE "right")>>)
    ELSE Checked(curr, <<>>)

\* physics.py 130
crossed(prev, curr) ==
    (prev.x < 0 /\ curr.x >= 0) \/ (prev.x > 0 /\ curr.x <= 0)

\* variant: a body hit leaves the ball where the step took it
check_net_collision_no_snap(prev, curr) ==
    IF ~crossed(prev, curr) THEN Checked(curr, <<>>)
    ELSE IF curr.y > 1 THEN Checked(curr, <<>>)
    ELSE IF curr.z < 4
    THEN IF curr.z >= 3
         THEN Checked(curr, <<NetEvent(TRUE)>>)
         ELSE Checked([curr EXCEPT !.alive = FALSE], <<NetEvent(FALSE)>>)
    ELSE Checked(curr, <<>>)

\* physics.py 115-163; the random outcome of a clip only sets the velocity
check_net_collision(prev, curr) ==
    IF ~crossed(prev, curr) THEN Checked(curr, <<>>)
    ELSE IF curr.y > 1 THEN Checked(curr, <<>>)
    ELSE IF curr.z < 4
    THEN IF curr.z >= 3
         THEN Checked(curr, <<NetEvent(TRUE)>>)
         ELSE Checked([curr EXCEPT !.x = prev.x, !.alive = FALSE],
                      <<NetEvent(FALSE)>>)
    ELSE Checked(curr, <<>>)

\* physics.py 166-193
check_out_of_bounds(curr) ==
    LET floor  == curr.z = 0 /\ ~OnTable(curr)
        c1     == IF curr.z = 0
                  THEN IF ~OnTable(curr) THEN [curr EXCEPT !.alive = FALSE]
                                         ELSE [curr EXCEPT !.z = 1]
                  ELSE curr
        ev1    == IF floor THEN <<OutEvent>> ELSE <<>>
        far    == c1.x \in {-3, 3} \/ c1.y = 3
    IN  IF far THEN Checked([c1 EXCEPT !.alive = FALSE], Append(ev1, OutEvent))
               ELSE Checked(c1, ev1)

\* variant: the loop runs once more
SimLoopRunsOnceMore(i, n) == i <= n

\* physics.py 220: for _ in range(steps), i iterations having run
SimLoopRuns(i, n) == i < n

\* physics.py 244-245
BounceCapExceeded(n) == n > max_bounces

\* variant: the alive check at the head of the loop is missing
BallDeadIgnored(s) == FALSE

\* physics.py 221: if not state.alive
BallDead(s) == ~s.alive

\* physics.py 215: all_events = [], no event has a t yet
NoTime == -1

\* simulate is not running
SimIdle ==
    /\ steps = 0
    /\ state = BallState(0, 0, 0, FALSE, 0)
    /\ positions = <<>>
    /\ all_events = <<>>
    /\ events_t = NoTime
    /\ bounce_count = 0
    /\ sim_i = 0
    /\ net_crossings = 0
    /\ spc = "idle"

\* physics.py 196-218: entry of simulate(s0, dt, max_time) with
\* int(max_time / dt) = n
SimEntry(s0, n) ==
    /\ steps = n
    /\ state = s0
    /\ positions = <<Snapshot(s0)>>
    /\ all_events = <<>>
    /\ events_t = NoTime
    /\ bounce_count = 0
    /\ sim_i = 0
    /\ net_crossings = 0
    /\ spc = "loop"

\* physics.py 220-245: one iteration of the loop.  The integration (224-233)
\* works on floats; here the position it reaches is any zone within MaxMove
\* of the current one (dt is 1 ms by default, the narrowest zone is 4 cm), with
\* y kept in its zone (a ball without lateral velocity or side spin).  Every
\* event of the step is stamped t = curr.t (physics.py 109, 152, 161, 178,
\* 190), which no check changes
SimStep ==
    /\ spc = "loop"
    /\ SimLoopRuns(sim_i, steps)
    /\ ~BallDead(state)
    /\ \E p \in Moves(state) :
          LET prev   == state
              moved  == BallState(p[1], state.y, p[2], state.alive, state.t + 1)
              b      == check_table_bounce(prev, moved)
              n      == check_net_collision(prev, b.curr)
              o      == check_out_of_bounds(n.curr)
              count  == bounce_count + Len(b.events)
              evs    == b.events \o n.events \o o.events
          IN  /\ Sgn(p[1]) # Sgn(prev.x) => net_crossings < MaxCrossings
              /\ net_crossings' = IF Sgn(p[1]) # Sgn(prev.x) THEN net_crossings + 1
                                  ELSE net_crossings
              /\ all_events' = all_events \o evs
              /\ events_t' = IF evs = <<>> THEN events_t ELSE moved.t
              /\ bounce_count' = count
              /\ positions' = Append(positions, Snapshot(o.curr))
              /\ state' = IF BounceCapExceeded(count)
                          THEN [o.curr EXCEPT !.alive = FALSE]
                          ELSE o.curr
    /\ sim_i' = sim_i + 1
    /\ UNCHANGED <<steps, spc, matchVars, gameVars, rallyVars, refVars, camVars>>

\* physics.py 221-222: the ball is dead, break and return
SimBreak ==
    /\ spc = "loop"
    /\ SimLoopRuns(sim_i, steps)
    /\ BallDead(state)
    /\ spc' = "done"
    /\ UNCHANGED <<steps, state, positions, all_events, events_t, bounce_count,
                   sim_i, net_crossings, matchVars, gameVars, rallyVars, refVars, camVars>>

\* physics.py 220, 247: range(steps) is exhausted, return
SimExhausted ==
    /\ spc = "loop"
    /\ ~SimLoopRuns(sim_i, steps)
    /\ spc' = "done"
    /\ UNCHANGED <<steps, state, positions, all_events, events_t, bounce_count,
                   sim_i, net_crossings, matchVars, gameVars, rallyVars, refVars, camVars>>

NextPhysics ==
    \/ SimStep
    \/ SimBreak
    \/ SimExhausted

----------------------------------------------------------------------------
(* engine/referee.py : detect_bounces, detect_net and detect_out.  Lengths   *)
(* are in units of 0.1 mm and times in frame intervals; frame_num, which no  *)
(* function reads, is left out of CameraFrame.                               *)

\* table.py 10-19, 41
TABLE_LENGTH == 27400
TABLE_WIDTH == 15250
TABLE_HEIGHT == 7600
NET_HEIGHT == 1525
BALL_RADIUS == 200
EDGE_THRESHOLD == 300
\* referee.py 28
proximity == 500

\* types.py 10-16: Vec3, and None for pos_detected
Vec3(x, y, z) == <<x, y, z>>
NoPos == <<>>

\* types.py 84-91
CameraFrame(t, pos_detected, confidence, blur_px, detected) ==
    [t |-> t, pos_detected |-> pos_detected, confidence |-> confidence,
     blur_px |-> blur_px, detected |-> detected]

Abs(n) == IF n < 0 THEN -n ELSE n

\* the events appended by a for-loop, in the order of its iterations
RECURSIVE Concat(_)
Concat(ss) == IF ss = <<>> THEN <<>> ELSE Head(ss) \o Concat(Tail(ss))

\* variant: every frame that carries a position
detected_frames_with_pos(fs) == SelectSeq(fs, LAMBDA f : f.pos_detected # NoPos)

\* referee.py 23, 77, 116: [f for f in frames if f.detected and f.pos_detected is not None]
detected_frames(fs) == SelectSeq(fs, LAMBDA f : f.detected /\ f.pos_detected # NoPos)

\* referee.py 59-64: the BounceEvent detect_bounces builds
DetectedBounce(pos, t, side, is_edge) ==
    [type |-> "bounce", pos |-> pos, t |-> t, side |-> side, is_edge |-> is_edge]

\* referee.py 100-104: the NetEvent detect_net builds
DetectedNet(pos, t, clipped) ==
    [type |-> "net", pos |-> pos, t |-> t, clipped |-> clipped]

\* referee.py 16-67
detect_bounces(fs) ==
    LET d        == detected_frames(fs)
        bounce_z == TABLE_HEIGHT + BALL_RADIUS
        half_l   == TABLE_LENGTH \div 2
        half_w   == TABLE_WIDTH \div 2
        At(i)    ==
            LET prev_z == d[i - 1].pos_detected[3]
                curr_z == d[i].pos_detected[3]
                next_z == d[i + 1].pos_detected[3]
                x      == d[i].pos_detected[1]
                y      == d[i].pos_detected[2]
            IN  IF /\ prev_z > curr_z /\ next_z > curr_z
                   /\ Abs(curr_z - bounce_z) < proximity
                   /\ Abs(x) <= half_l + 200 /\ Abs(y) <= half_w + 200
                THEN <<DetectedBounce(d[i].pos_detected, d[i].t,
                                      IF x < 0 THEN "left" ELSE "right",
                                      \/ Abs(Abs(x) - half_l) < EDGE_THRESHOLD
                                      \/ Abs(Abs(y) - half_w) < EDGE_THRESHOLD)>>
                ELSE <<>>
    IN  IF Len(d) < 3 THEN <<>>
        ELSE Concat([k \in 1..(Len(d) - 2) |-> At(k + 1)])

\* referee.py 70-107.  vx_before = dx_prev / dt_prev and vx_after = dx_next /
\* dt_next with both gaps positive, so abs(vx_after) < abs(vx_before) * 0.5 is
\* 2 |dx_next| dt_prev < |dx_prev| dt_next, and the signs of the velocities
\* are those of dx_prev and dx_next.
detect_net(fs) ==
    LET d     == detected_frames(fs)
        At(i) ==
            LET x       == d[i].pos_detected[1]
                dt_prev == d[i].t - d[i - 1].t
                dt_next == d[i + 1].t - d[i].t
                dx_prev == d[i].pos_detected[1] - d[i - 1].pos_detected[1]
                dx_next == d[i + 1].pos_detected[1] - d[i].pos_detected[1]
            IN  IF /\ Abs(x) < 1500
                   /\ dt_prev > 0 /\ dt_next > 0
                   /\ \/ 2 * Abs(dx_next) * dt_prev < Abs(dx_prev) * dt_next
                      \/ (dx_prev > 0 /\ dx_next < 0)
                THEN <<DetectedNet(d[i].pos_detected, d[i].t,
                                   d[i].pos_detected[3] > TABLE_HEIGHT + (NET_HEIGHT * 8) \div 10)>>
                ELSE <<>>
    IN  IF Len(d) < 3 THEN <<>>
        ELSE Concat([k \in 1..(Len(d) - 2) |-> At(k + 1)])

\* referee.py 110-135; last_bounce_side is not read
detect_out(fs) ==
    LET d        == detected_frames(fs)
        last_few == IF Len(d) >= 3 THEN SubSeq(d, Len(d) - 2, Len(d)) ELSE d
        half_l   == TABLE_LENGTH \div 2
        half_w   == TABLE_WIDTH \div 2
    IN  IF Len(d) < 2 THEN FALSE
        ELSE \E i \in 1..Len(last_few) :
                \/ Abs(last_few[i].pos_detected[1]) > half_l + 1000
                \/ Abs(last_few[i].pos_detected[2]) > half_w + 1000
                \/ last_few[i].pos_detected[3] < TABLE_HEIGHT - 1000

\* the ball positions a frame is given: at bounce height left of, at and right
\* of the net, above the net, above the table away from the net, beyond the
\* table's corner, and below the table top
FramePositions ==
    {Vec3(-1000, 0, 7800), Vec3(0, 0, 7800), Vec3(1000, 0, 7800),
     Vec3(0, 0, 10000), Vec3(2000, 0, 10000),
     Vec3(15000, 9000, 7800), Vec3(1000, 0, 5000)}

\* the frames that can follow a frame taken at time t: a detection, a miss,
\* a frame flagged detected without a position, a position not flagged
FrameInputs(t) ==
    UNION {{CameraFrame(t + d, p, 99, 0, TRUE) : p \in FramePositions}
           \cup {CameraFrame(t + d, NoPos, 10, 9, FALSE),
                 CameraFrame(t + d, NoPos, 99, 0, TRUE),
                 CameraFrame(t + d, Vec3(0, 0, 7800), 40, 3, FALSE)} : d \in {0, 1}}

RefIdle ==
    /\ frames = <<>>
    /\ bounces = <<>>
    /\ net_events = <<>>
    /\ is_out = FALSE
    /\ jpc = "idle"

\* the caller collects one more frame
Capture ==
    /\ jpc = "frames"
    /\ Len(frames) < MaxFrames
    /\ \E f \in FrameInputs(IF frames = <<>> THEN 0 ELSE frames[Len(frames)].t) :
          frames' = Append(frames, f)
    /\ UNCHANGED <<bounces, net_events, is_out, jpc,
                   matchVars, gameVars, rallyVars, simVars, camVars>>

\* the caller runs the three inference functions on the frames it has
Judge ==
    /\ jpc = "frames"
    /\ bounces' = detect_bounces(frames)
    /\ net_events' = detect_net(frames)
    /\ is_out' = detect_out(frames)
    /\ jpc' = "judged"
    /\ UNCHANGED <<frames, matchVars, gameVars, rallyVars, simVars, camVars>>

NextReferee == Capture \/ Judge

----------------------------------------------------------------------------
(* engine/camera.py : _find_position_at_time.  A BallState is kept as its t. *)

\* camera.py 40: return None
NotFound == -1

CamIdle ==
    /\ cam_positions = <<>>
    /\ cam_t = 0
    /\ lo = 0
    /\ hi = 0
    /\ found = NotFound
    /\ cpc = "idle"

\* camera.py 39-41: the guard, then lo, hi = 0, len(positions) - 1
FindEntry ==
    /\ cpc = "entry"
    /\ IF \/ cam_positions = <<>>
          \/ cam_t < cam_positions[1]
          \/ cam_t > cam_positions[Len(cam_positions)]
       THEN /\ cpc' = "done"
            /\ UNCHANGED <<lo, hi>>
       ELSE /\ lo' = 1
            /\ hi' = Len(cam_positions)
            /\ cpc' = "loop"
    /\ UNCHANGED <<cam_positions, cam_t, found,
                   matchVars, gameVars, rallyVars, simVars, refVars>>

\* camera.py 42-47: one iteration of while lo < hi
FindHalve ==
    /\ cpc = "loop"
    /\ lo < hi
    /\ LET mid == (lo + hi) \div 2
       IN  IF cam_positions[mid] < cam_t
           THEN lo' = mid + 1 /\ hi' = hi
           ELSE hi' = mid /\ lo' = lo
    /\ UNCHANGED <<cam_positions, cam_t, found, cpc,
                   matchVars, gameVars, rallyVars, simVars, refVars>>

\* camera.py 48: return positions[lo]
FindReturn ==
    /\ cpc = "loop"
    /\ ~(lo < hi)
    /\ found' = cam_positions[lo]
    /\ cpc' = "done"
    /\ UNCHANGED <<cam_positions, cam_t, lo, hi,
                   matchVars, gameVars, rallyVars, simVars, refVars>>

NextCamera == FindEntry \/ FindHalve \/ FindReturn

----------------------------------------------------------------------------
(* engine/game.py : helpers of simulate_rally *)

\* game.py 68-73; NoBounce stands for None
NoBounce == [type |-> "none", side |-> "none", clipped |-> FALSE]

find_landing_bounce(ev, target_side) ==
    LET hits == {i \in 1..Len(ev) : ev[i].type = "bounce" /\ ev[i].side = target_side}
    IN  IF hits = {} THEN NoBounce
        ELSE ev[CHOOSE i \in hits : \A j \in hits : i <= j]

\* variant: any(...) in place of sum(...), so the count is 0 or 1
count_bounces_on_side_any(ev, side) ==
    IF \E i \in 1..Len(ev) : ev[i].type = "bounce" /\ ev[i].side = side
    THEN 1 ELSE 0

\* game.py 76-78
count_bounces_on_side(ev, side) ==
    Cardinality({i \in 1..Len(ev) : ev[i].type = "bounce" /\ ev[i].side = side})

\* variant: the "not" of "not e.clipped" is missing
ball_hit_net_body_any_clip(ev) ==
    \E i \in 1..Len(ev) : ev[i].type = "net" /\ ev[i].clipped

\* game.py 81-86
ball_hit_net_body(ev) ==
    \E i \in 1..Len(ev) : ev[i].type = "net" /\ ~ev[i].clipped

\* game.py 89-94
ball_clipped_net(ev) ==
    \E i \in 1..Len(ev) : ev[i].type = "net" /\ ev[i].clipped

\* game.py 97-99
ball_went_out(ev) ==
    \E i \in 1..Len(ev) : ev[i].type = "out"

\* game.py 146-147, 236, 311-312: "left" if <player>.side == 1 else "right"
SideStr(player) == IF player = 1 THEN "left" ELSE "right"

\* game.py 147: receiver_side = "right" if current_hitter.side == 1 else "left"
ReceiverSideStr(hitter) == IF hitter = 1 THEN "right" ELSE "left"

\* game.py 127: max_lets = 10
max_lets == 10
\* game.py 231: max_rally = 50
max_rally == 50

\* game.py 34-41: RallyResult (shots is the variable shots; total_duration is
\* not modelled)
RallyResult(winner, reason, rally_length) ==
    [winner |-> winner, reason |-> reason, rally_length |-> rally_length]

NoResult == RallyResult(0, "none", 0)

\* what the serve checks of one attempt decide
Decided(res) == [kind |-> "result", res |-> res]
LetServe     == [kind |-> "let", res |-> NoResult]
ValidServe   == [kind |-> "valid", res |-> NoResult]

\* variant: every clipped serve is replayed
ClippedServeAlwaysLet(ev, hitter, receiver) == LetServe

\* game.py 160-173: a serve that clipped the net
ClippedServe(ev, hitter, receiver) ==
    IF count_bounces_on_side(ev, ReceiverSideStr(hitter)) > 0
    THEN LetServe
    ELSE Decided(RallyResult(receiver, "net_on_serve", 1))

\* variant: the out check is missing
ShortServeAlwaysFault(ev, receiver) ==
    Decided(RallyResult(receiver, "serve_fault", 1))

\* game.py 190-206: a serve that bounced on the server's half only
ShortServe(ev, receiver) ==
    IF ball_went_out(ev)
    THEN Decided(RallyResult(receiver, "out", 1))
    ELSE Decided(RallyResult(receiver, "serve_fault", 1))

\* game.py 146-219: the checks made on one serve attempt
ServeVerdict(ev, hitter, receiver) ==
    LET server_side   == SideStr(hitter)
        receiver_side == ReceiverSideStr(hitter)
    IN  IF ball_hit_net_body(ev)
        THEN Decided(RallyResult(receiver, "net_on_serve", 1))
        ELSE IF ball_clipped_net(ev)
        THEN ClippedServe(ev, hitter, receiver)
        ELSE IF count_bounces_on_side(ev, server_side) = 0
        THEN Decided(RallyResult(receiver, "serve_fault", 1))
        ELSE IF count_bounces_on_side(ev, receiver_side) = 0
        THEN ShortServe(ev, receiver)
        ELSE IF count_bounces_on_side(ev, receiver_side) >= 2
        THEN Decided(RallyResult(hitter, "ace", 1))
        ELSE ValidServe

\* variant: the internal reason is returned
TooManyLetsAsLet(receiver) == RallyResult(receiver, "let", 1)

\* game.py 220-228: the else branch of the serve loop
TooManyLets(receiver) == RallyResult(receiver, "net_on_serve", 1)

\* variant: a double bounce gives the point to the receiver
LandingVerdictDoubleToReceiver(ev, hitter, receiver, nshots) ==
    IF find_landing_bounce(ev, SideStr(receiver)) = NoBounce
    THEN IF ball_went_out(ev)
         THEN Decided(RallyResult(receiver, "out", nshots))
         ELSE Decided(RallyResult(hitter, "winner", nshots))
    ELSE IF count_bounces_on_side(ev, SideStr(receiver)) >= 2
    THEN Decided(RallyResult(receiver, "double_bounce", nshots))
    ELSE ValidServe

\* variant: the double-bounce check is missing
LandingVerdictNoDouble(ev, hitter, receiver, nshots) ==
    IF find_landing_bounce(ev, SideStr(receiver)) = NoBounce
    THEN IF ball_went_out(ev)
         THEN Decided(RallyResult(receiver, "out", nshots))
         ELSE Decided(RallyResult(hitter, "winner", nshots))
    ELSE ValidServe

\* game.py 235-268: the checks at the head of a rally iteration, before can_reach
LandingVerdict(ev, hitter, receiver, nshots) ==
    LET recv_side_str == SideStr(receiver)
    IN  IF find_landing_bounce(ev, recv_side_str) = NoBounce
        THEN IF ball_went_out(ev)
             THEN Decided(RallyResult(receiver, "out", nshots))
             ELSE Decided(RallyResult(hitter, "winner", nshots))
        ELSE IF count_bounces_on_side(ev, recv_side_str) >= 2
        THEN Decided(RallyResult(hitter, "double_bounce", nshots))
        ELSE ValidServe

\* variant: the out check after a return is missing
ReturnVerdictNetOnly(ev, hitter, receiver, nshots) ==
    IF ball_hit_net_body(ev)
    THEN Decided(RallyResult(hitter, "net", nshots))
    ELSE ValidServe

\* variant: a failed return gives the point to the player who struck it
ReturnVerdictToReturner(ev, hitter, receiver, nshots) ==
    IF ball_hit_net_body(ev)
    THEN Decided(RallyResult(receiver, "net", nshots))
    ELSE IF ball_went_out(ev) /\ find_landing_bounce(ev, SideStr(hitter)) = NoBounce
    THEN Decided(RallyResult(receiver, "out", nshots))
    ELSE ValidServe

\* game.py 300-321: the checks made on a return; hitter and receiver are the
\* roles before the swap, so the return was struck by receiver
ReturnVerdict(ev, hitter, receiver, nshots) ==
    LET opponent_side_str == SideStr(hitter)
    IN  IF ball_hit_net_body(ev)
        THEN Decided(RallyResult(hitter, "net", nshots))
        ELSE IF ball_went_out(ev) /\ find_landing_bounce(ev, opponent_side_str) = NoBounce
        THEN Decided(RallyResult(hitter, "out", nshots))
        ELSE ValidServe

\* game.py 24-31: RallyShot (ball_state, positions and events are not modelled;
\* the events of the last shot are the variable events)
RallyShot(player, shot_type) == [player |-> player, shot_type |-> shot_type]

----------------------------------------------------------------------------
(* SpecRally: simulate_rally(p1, p2, server) with p1.side = 1, p2.side = 2 *)

RallyIdle ==
    /\ server = 1
    /\ let_attempt = 0
    /\ shots = <<>>
    /\ events = <<>>
    /\ current_hitter = 1
    /\ current_receiver = 2
    /\ rally_num = 0
    /\ reach_checks = 0
    /\ rpc = "idle"
    /\ result = NoResult

\* variant: p1 serves whatever server says
serving_player_p1(s) == 1

\* game.py 124-125
serving_player(s)   == IF s = 1 THEN 1 ELSE 2
receiving_player(s) == IF s = 1 THEN 2 ELSE 1

\* entry of simulate_rally, game.py 124-129
RallyEntry(s) ==
    /\ server = s
    /\ let_attempt = 0
    /\ shots = <<>>
    /\ events = <<>>
    /\ current_hitter = serving_player(s)
    /\ current_receiver = receiving_player(s)
    /\ rally_num = 0
    /\ reach_checks = 0
    /\ rpc = "serve"
    /\ result = NoResult

\* variant: shots is created once, before the serve loop
serve_shots_kept(sh, player) == Append(sh, RallyShot(player, "serve"))

\* game.py 130, 138-144: shots = [] followed by shots.append(RallyShot(...))
serve_shots(sh, player) == <<RallyShot(player, "serve")>>

\* variant: the loop runs once more
ServeLoopRunsOnceMore(n) == n <= max_lets

\* game.py 129: for let_attempt in range(max_lets), n iterations having run
ServeLoopRuns(n) == n < max_lets

\* game.py 129-144: one serve attempt is generated and simulated
ServeShot ==
    /\ rpc = "serve"
    /\ ServeLoopRuns(let_attempt)
    /\ \E ev \in PhysicsEvents :
          /\ events' = ev
          /\ current_hitter' = serving_player(server)
          /\ current_receiver' = receiving_player(server)
          /\ shots' = serve_shots(shots, serving_player(server))
    /\ let_attempt' = let_attempt + 1
    /\ rpc' = "serve_check"
    /\ UNCHANGED <<server, rally_num, reach_checks, result, matchVars, gameVars, simVars, refVars, camVars>>

\* game.py 149-219: the attempt is judged: a result is returned, the serve is
\* replayed (continue), or the serve loop is left (break).  The loop variable
\* is never read by the code; it is the position of the range iterator, which
\* is dropped when the loop is left
ServeCheck ==
    /\ rpc = "serve_check"
    /\ LET v == ServeVerdict(events, current_hitter, current_receiver)
       IN  /\ rpc' = CASE v.kind = "result" -> "done"
                       [] v.kind = "let"    -> "serve"
                       [] OTHER             -> "rally"
           /\ result' = v.res
           /\ let_attempt' = IF v.kind = "valid" THEN 0 ELSE let_attempt
    /\ UNCHANGED <<server, shots, events, current_hitter,
                   current_receiver, rally_num, reach_checks, matchVars, gameVars, simVars, refVars, camVars>>

\* game.py 220-228: every attempt was a let
LetsExhausted ==
    /\ rpc = "serve"
    /\ ~ServeLoopRuns(let_attempt)
    /\ result' = TooManyLets(current_receiver)
    /\ rpc' = "done"
    /\ UNCHANGED <<server, let_attempt, shots, events, current_hitter,
                   current_receiver, rally_num, reach_checks, matchVars, gameVars, simVars, refVars, camVars>>

\* variant: the loop runs once more
RallyLoopRunsOnceMore(n) == n <= max_rally

\* game.py 234: for rally_num in range(max_rally), n iterations having run
RallyLoopRuns(n) == n < max_rally

\* game.py 234-268: head of a rally iteration
RallyLanding ==
    /\ rpc = "rally"
    /\ RallyLoopRuns(rally_num)
    /\ LET v == LandingVerdict(events, current_hitter, current_receiver, Len(shots))
       IN  /\ rpc' = IF v.kind = "result" THEN "done" ELSE "reach"
           /\ result' = v.res
    /\ rally_num' = rally_num + 1
    /\ UNCHANGED <<server, let_attempt, shots, events, current_hitter,
                   current_receiver, reach_checks, matchVars, gameVars, simVars, refVars, camVars>>

\* game.py 270-324: can_reach is a random draw; when it fails the hitter wins,
\* otherwise the receiver strikes a return, which is simulated and judged, and
\* the roles swap unless the return ended the rally
ReachAndReturn ==
    /\ rpc = "reach"
    /\ reach_checks' = reach_checks + 1
    /\ \/ /\ result' = RallyResult(current_hitter, "unreturned", Len(shots))
          /\ rpc' = "done"
          /\ UNCHANGED <<shots, events, current_hitter, current_receiver>>
       \/ \E ev \in PhysicsEvents :
            LET struck == Append(shots, RallyShot(current_receiver, "return"))
                v == ReturnVerdict(ev, current_hitter, current_receiver, Len(struck))
            IN  /\ events' = ev
                /\ shots' = struck
                /\ result' = v.res
                /\ rpc' = IF v.kind = "result" THEN "done" ELSE "rally"
                /\ current_hitter' = IF v.kind = "result" THEN current_hitter
                                     ELSE current_receiver
                /\ current_receiver' = IF v.kind = "result" THEN current_receiver
                                       ELSE current_hitter
    /\ UNCHANGED <<server, let_attempt, rally_num, matchVars, gameVars, simVars, refVars, camVars>>

\* game.py 326-333: the rally loop ran max_rally times
RallyTimeout ==
    /\ rpc = "rally"
    /\ ~RallyLoopRuns(rally_num)
    /\ \E w \in {1, 2} : result' = RallyResult(w, "timeout", Len(shots))
    /\ rpc' = "done"
    /\ UNCHANGED <<server, let_attempt, shots, events, current_hitter,
                   current_receiver, rally_num, reach_checks, matchVars, gameVars, simVars, refVars, camVars>>

NextRally ==
    \/ ServeShot
    \/ ServeCheck
    \/ LetsExhausted
    \/ RallyLanding
    \/ ReachAndReturn
    \/ RallyTimeout

----------------------------------------------------------------------------
(* SpecScore: a caller holding a Match and calling score_point on it *)

\* no game is running
GameIdle ==
    /\ rallies = <<>>
    /\ gpc = "idle"


InitScore ==
    /\ match = create_match
    /\ extra = 0
    /\ SimIdle
    /\ RefIdle
    /\ CamIdle
    /\ GameIdle
    /\ RallyIdle

ScorePoint ==
    \E side \in Sides :
        /\ IF match.winner # None THEN extra < MaxExtra
                                  ELSE Len(match.history) < MaxPoints
        /\ match' = score_point(match, side)
        /\ extra' = IF match.winner # None THEN extra + 1 ELSE extra
        /\ UNCHANGED <<gameVars, rallyVars, simVars, refVars, camVars>>

NextScore == ScorePoint

SpecScore == InitScore /\ [][NextScore]_vars

InitRally ==
    /\ match = create_match
    /\ extra = 0
    /\ SimIdle
    /\ RefIdle
    /\ CamIdle
    /\ GameIdle
    /\ \E s \in {1, 2} : RallyEntry(s)

SpecRally == InitRally /\ [][NextRally]_vars

----------------------------------------------------------------------------
(* SpecGame: simulate_game(p1, p2) with p1.side = 1, p2.side = 2 *)

\* variant: the rally is served by the player who is not the server
GameRallyOtherServer(w, s) == [winner |-> w, first_player |-> serving_player(OtherServer(s))]

\* game.py 348: what simulate_game reads of the RallyResult of
\* simulate_rally(p1, p2, server): its winner, and the striker of its first
\* shot (game.py 124, 131, 139)
GameRally(w, s) == [winner |-> w, first_player |-> serving_player(s)]

\* game.py 149-216: the winners simulate_rally(p1, p2, s) returns; each of them
\* is returned already on the first serve attempt
FirstServeWinners(s) ==
    {ServeVerdict(ev, serving_player(s), receiving_player(s)).res.winner :
        ev \in {e \in PhysicsEvents :
                  ServeVerdict(e, serving_player(s), receiving_player(s)).kind
                      = "result"}}

RallyWinnerTable == [s \in {1, 2} |-> FirstServeWinners(s)]

RallyWinners(s) == RallyWinnerTable[s]

\* game.py 347: while match.winner is None
LoopCondition(m) == m.winner = None

\* variant: the sides are swapped
PointSideSwapped(w) == IF w = 1 THEN "left" ELSE "right"

\* game.py 352-355: P1 won -> scored on right, P2 won -> scored on left
PointSide(w) == IF w = 1 THEN "right" ELSE "left"

\* game.py 344-345
InitGame ==
    /\ match = create_match
    /\ extra = 0
    /\ SimIdle
    /\ RefIdle
    /\ CamIdle
    /\ rallies = <<>>
    /\ gpc = "loop"
    /\ RallyIdle

\* game.py 347-355: one iteration of the while loop
PlayRally ==
    /\ gpc = "loop"
    /\ LoopCondition(match)
    /\ Len(rallies) < MaxPoints
    /\ \E w \in RallyWinners(match.server) :
          /\ rallies' = Append(rallies, GameRally(w, match.server))
          /\ match' = score_point(match, PointSide(w))
    /\ UNCHANGED <<extra, gpc, rallyVars, simVars, refVars, camVars>>

\* game.py 357-365: the loop is left and the GameResult returned
GameReturn ==
    /\ gpc = "loop"
    /\ ~LoopCondition(match)
    /\ gpc' = "done"
    /\ UNCHANGED <<match, extra, rallies, rallyVars, simVars, refVars, camVars>>

NextGame == PlayRally \/ GameReturn

SpecGame == InitGame /\ [][NextGame]_vars

----------------------------------------------------------------------------
(* SpecPhysics: one call of simulate(initial_state, dt, max_time) *)

\* the values of int(max_time / dt) simulate is called with
StepInputs == {0, 1, MaxSteps}

InitPhysics ==
    /\ match = create_match
    /\ extra = 0
    /\ GameIdle
    /\ RallyIdle
    /\ RefIdle
    /\ CamIdle
    /\ \E x \in XZones, y \in YZones, z \in ZZones, alive \in BOOLEAN, n \in StepInputs :
          SimEntry(BallState(x, y, z, alive, 0), n)

SpecPhysics == InitPhysics /\ [][NextPhysics]_vars

----------------------------------------------------------------------------
(* SpecReferee: frames arrive one by one and are judged by detect_* *)

InitReferee ==
    /\ match = create_match
    /\ extra = 0
    /\ GameIdle
    /\ RallyIdle
    /\ SimIdle
    /\ CamIdle
    /\ frames = <<>>
    /\ bounces = <<>>
    /\ net_events = <<>>
    /\ is_out = FALSE
    /\ jpc = "frames"

SpecReferee == InitReferee /\ [][NextReferee]_vars

----------------------------------------------------------------------------
(* SpecCamera: one call of _find_position_at_time(positions, t) *)

\* the time-ordered lists of sample times of up to MaxSamples samples
Trajectories ==
    {s \in UNION {[1..n -> 0..MaxTime] : n \in 0..MaxSamples} :
        \A i \in 1..(Len(s) - 1) : s[i] <= s[i + 1]}

InitCamera ==
    /\ match = create_match
    /\ extra = 0
    /\ GameIdle
    /\ RallyIdle
    /\ SimIdle
    /\ RefIdle
    /\ cam_positions \in Trajectories
    /\ cam_t \in -1..(MaxTime + 1)
    /\ lo = 0
    /\ hi = 0
    /\ found = NotFound
    /\ cpc = "entry"

SpecCamera == InitCamera /\ [][NextCamera]_vars

----------------------------------------------------------------------------
(* Properties *)

\* the events of a list, read directly
Has(ev, e) == \E i \in 1..Len(ev) : ev[i] = e
Bounces(ev, side) == Cardinality({i \in 1..Len(ev) : ev[i] = BounceEvent(side)})
Opponent(player) == 3 - player
HalfOf(player) == IF player = 1 THEN "left" ELSE "right"
Points(m) == m.p1_score + m.p2_score
WonBy(rs, w) == Cardinality({i \in 1..Len(rs) : rs[i].winner = w})

\* C1: in every Match reached by score_point calls from create_match(), winner
\* is 1 exactly when p1_score >= 11 and p1_score - p2_score >= 2, it is 2
\* exactly when p2_score >= 11 and p2_score - p1_score >= 2, and it is None
\* otherwise.
C1_WinnerExactlyWhenDue ==
    /\ match.winner \in {None, 1, 2}
    /\ match.winner = 1 <=>
           (match.p1_score >= 11 /\ match.p1_score - match.p2_score >= 2)
    /\ match.winner = 2 <=>
           (match.p2_score >= 11 /\ match.p2_score - match.p1_score >= 2)

\* C1 witness: 12-10 has been reached through 11-10, and player 1 has won.
C1_Witness ==
    /\ match.p1_score = 12
    /\ match.p2_score = 10
    /\ match.winner = 1
    /\ match.history[21].p1 = 11
    /\ match.history[21].p2 = 10

\* C2: once winner is set, a score_point call with either side returns a
\* Match equal to its input in every field, however often it is called.
C2_NoOpOnceWon ==
    [][match.winner # None => match' = match]_vars

\* C2 witness: score_point has been called twice on a Match with a winner.
C2_Witness ==
    /\ match.winner # None
    /\ extra >= 2

\* C3: after n < 20 points the server is 1 when floor(n/2) is even and 2 when
\* it is odd, whoever won the points.
C3_ServeEveryTwoPoints ==
    Points(match) < 20 =>
        match.server = (IF (Points(match) \div 2) % 2 = 0 THEN 1 ELSE 2)

\* C3 witness: 19 points have been played without a winner, and player 2
\* serves.
C3_Witness ==
    /\ Points(match) = 19
    /\ match.winner = None
    /\ match.server = 2

\* C4: 10-10 is reached with serve_count = 0, and once both scores are >= 10
\* every score_point call on a Match without a winner changes the server.
C4_ServeEveryPointAtDeuce ==
    /\ []((match.p1_score = 10 /\ match.p2_score = 10) => match.serve_count = 0)
    /\ [][(/\ match.p1_score >= 10
           /\ match.p2_score >= 10
           /\ match.winner = None
           /\ match' # match) => match'.server # match.server]_vars

\* C4 witness: two points have been played from 10-10 and the game goes on.
C4_Witness ==
    /\ match.p1_score = 11
    /\ match.p2_score = 11
    /\ match.winner = None

FinalReasons ==
    {"ace", "winner", "unreturned", "net", "net_on_serve", "out",
     "double_bounce", "serve_fault", "timeout"}

\* C5: simulate_rally returns a result with winner in {1, 2}, rally_length
\* >= 1, a non-empty shot list and a reason other than the internal "let";
\* before it returns there is always a next step, so no path ends without a
\* result.
C5_RallyAlwaysDecided ==
    /\ rpc \in {"serve", "serve_check", "rally", "reach", "done"}
    /\ rpc = "done" =>
          /\ result.winner \in {1, 2}
          /\ result.rally_length >= 1
          /\ Len(shots) >= 1
          /\ result.reason \in FinalReasons
    /\ rpc # "done" =>
          /\ result = NoResult
          /\ ENABLED NextRally

\* C5 witness: a rally has run through all its exchanges and timed out.
C5_Witness ==
    /\ rpc = "done"
    /\ result.reason = "timeout"
    /\ Len(shots) = max_rally + 1

\* C6: a returned GameResult has a winner in {1, 2} whose score is >= 11 and
\* at least 2 ahead; p1_score and p2_score count the rallies won by 1 and by
\* 2, so len(rallies) = p1_score + p2_score, and the last rally was played on
\* a match without a winner.
C6_GameResult ==
    gpc = "done" =>
        LET w     == match.winner
            won   == IF w = 1 THEN match.p1_score ELSE match.p2_score
            lost  == IF w = 1 THEN match.p2_score ELSE match.p1_score
            last  == rallies[Len(rallies)].winner
            prev1 == IF last = 1 THEN match.p1_score - 1 ELSE match.p1_score
            prev2 == IF last = 2 THEN match.p2_score - 1 ELSE match.p2_score
        IN  /\ w \in {1, 2}
            /\ won >= 11
            /\ won - lost >= 2
            /\ match.p1_score = WonBy(rallies, 1)
            /\ match.p2_score = WonBy(rallies, 2)
            /\ Len(rallies) = match.p1_score + match.p2_score
            /\ ~(prev1 >= 11 /\ prev1 - prev2 >= 2)
            /\ ~(prev2 >= 11 /\ prev2 - prev1 >= 2)

\* C6 witness: a game has been returned that player 2 won 12-10.
C6_Witness ==
    /\ gpc = "done"
    /\ match.p2_score = 12
    /\ match.p1_score = 10

ClippedAttempt ==
    /\ rpc = "serve_check"
    /\ ~Has(events, NetEvent(FALSE))
    /\ Has(events, NetEvent(TRUE))

\* C8 as stated: a clipped serve that bounced on the receiver's half awards no
\* point and the same server serves again; one that did not gives the receiver
\* the point with reason net_on_serve.
C8_LetAlwaysReplayed ==
    [][ClippedAttempt =>
          IF Bounces(events, HalfOf(Opponent(server))) >= 1
          THEN /\ result' = NoResult
               /\ rpc' = "serve"
               /\ let_attempt' < max_lets
          ELSE /\ rpc' = "done"
               /\ result' = RallyResult(Opponent(server), "net_on_serve", 1)]_vars

\* C8 amended: a clipped serve that bounced on the receiver's half awards no
\* point and, on each of the first 9 attempts of a rally, the same server
\* serves again; on the 10th attempt no serve follows and the receiver wins
\* with reason net_on_serve, rally_length 1.  A clipped serve without a bounce
\* on the receiver's half gives the receiver the point, reason net_on_serve.
C8_LetReplayedUpToCap ==
    /\ [][ClippedAttempt =>
            IF Bounces(events, HalfOf(Opponent(server))) >= 1
            THEN /\ result' = NoResult
                 /\ rpc' = "serve"
                 /\ let_attempt' = let_attempt
            ELSE /\ rpc' = "done"
                 /\ result' = RallyResult(Opponent(server), "net_on_serve", 1)]_vars
    /\ [][(rpc = "serve" /\ let_attempt < max_lets) =>
            /\ rpc' = "serve_check"
            /\ shots' = <<RallyShot(server, "serve")>>
            /\ result' = NoResult]_vars
    /\ [][(rpc = "serve" /\ let_attempt >= max_lets) =>
            /\ rpc' = "done"
            /\ let_attempt = max_lets
            /\ Len(shots') = 1
            /\ result' = RallyResult(Opponent(server), "net_on_serve", 1)]_vars

\* C8 witness: the third attempt is being judged after two lets, and it is a
\* let again.
C8_Witness ==
    /\ ClippedAttempt
    /\ let_attempt = 3
    /\ Bounces(events, HalfOf(Opponent(server))) >= 1
    /\ shots = <<RallyShot(server, "serve")>>

\* C9: a serve whose events hold a NetEvent with clipped = false ends the rally
\* at that attempt, the receiver winning with reason net_on_serve and
\* rally_length 1, whatever else the events hold.
C9_NetBodyOnServe ==
    [][(rpc = "serve_check" /\ Has(events, NetEvent(FALSE))) =>
          /\ rpc' = "done"
          /\ result' = RallyResult(Opponent(server), "net_on_serve", 1)
          /\ shots' = <<RallyShot(server, "serve")>>]_vars

\* C9 witness: a serve that clipped the net, bounced on the receiver's half
\* and then hit the net body has ended the rally.
C9_Witness ==
    /\ rpc = "done"
    /\ Len(shots) = 1
    /\ Has(events, NetEvent(FALSE))
    /\ Has(events, NetEvent(TRUE))
    /\ Bounces(events, HalfOf(Opponent(server))) >= 1
    /\ result.reason = "net_on_serve"

\* C10: for a serve without a NetEvent, no bounce on the server's half gives
\* the receiver the point with reason serve_fault; a bounce there but none on
\* the receiver's half gives the receiver the point with reason out when the
\* events hold an OutEvent and serve_fault otherwise; rally_length is 1 and
\* the serve stays the only shot.
C10_ServeFaults ==
    [][(/\ rpc = "serve_check"
        /\ ~Has(events, NetEvent(FALSE))
        /\ ~Has(events, NetEvent(TRUE))
        /\ \/ Bounces(events, HalfOf(server)) = 0
           \/ Bounces(events, HalfOf(Opponent(server))) = 0) =>
          /\ rpc' = "done"
          /\ shots' = <<RallyShot(server, "serve")>>
          /\ reach_checks' = 0
          /\ result' = RallyResult(Opponent(server),
                           IF /\ Bounces(events, HalfOf(server)) >= 1
                              /\ Has(events, OutEvent)
                           THEN "out" ELSE "serve_fault",
                           1)]_vars

\* C10 witness: a serve bounced on the server's half, went out without a
\* bounce on the receiver's half, and the receiver got the point.
C10_Witness ==
    /\ rpc = "done"
    /\ shots = <<RallyShot(server, "serve")>>
    /\ Bounces(events, HalfOf(server)) >= 1
    /\ Has(events, OutEvent)
    /\ result = RallyResult(Opponent(server), "out", 1)

\* the half of the first bounce of an event list, "none" when nothing bounced
FirstBounceHalf(ev) ==
    LET hits == {i \in 1..Len(ev) : ev[i].type = "bounce"}
    IN  IF hits = {} THEN "none"
        ELSE ev[CHOOSE i \in hits : \A j \in hits : i <= j].side

\* C11 as stated: a serve attempt whose first bounce is not on the server's
\* half, or that has no bounce there at all, ends the rally with the receiver
\* winning; it is neither replayed as a let nor followed by the rally loop.
C11_ServeBouncesOwnHalfFirst ==
    [][(rpc = "serve_check" /\ FirstBounceHalf(events) # HalfOf(server)) =>
          /\ rpc' = "done"
          /\ result'.winner = Opponent(server)]_vars

\* C12: a serve attempt with no NetEvent, at least one bounce on the server's
\* half and two or more on the receiver's half ends the rally with the server
\* winning, reason ace, rally_length 1, the serve being the only shot, and
\* can_reach is not evaluated for it.
C12_Ace ==
    /\ [][(/\ rpc = "serve_check"
           /\ ~Has(events, NetEvent(FALSE))
           /\ ~Has(events, NetEvent(TRUE))
           /\ Bounces(events, HalfOf(server)) >= 1
           /\ Bounces(events, HalfOf(Opponent(server))) >= 2) =>
             /\ rpc' = "done"
             /\ result' = RallyResult(server, "ace", 1)
             /\ shots' = <<RallyShot(server, "serve")>>
             /\ reach_checks' = 0]_vars
    /\ []((rpc = "done" /\ result.reason = "ace") => reach_checks = 0)

\* C12 witness: a serve bounced once on the server's half and twice on the
\* receiver's, and the server got the point as an ace.
C12_Witness ==
    /\ rpc = "done"
    /\ events = <<BounceEvent(HalfOf(server)),
                  BounceEvent(HalfOf(Opponent(server))),
                  BounceEvent(HalfOf(Opponent(server)))>>
    /\ result = RallyResult(server, "ace", 1)
    /\ reach_checks = 0

\* C13: in the rally loop can_reach is evaluated only for a shot with exactly
\* one bounce on the receiver's half; two or more bounces there give the
\* hitter the point with reason double_bounce and no reach check, and a failed
\* can_reach gives the hitter the point with reason unreturned, the shot list
\* staying as it was.
C13_ReachOnlyAfterOneBounce ==
    /\ [][reach_checks' # reach_checks =>
            /\ rpc = "reach"
            /\ reach_checks' = reach_checks + 1
            /\ Bounces(events, HalfOf(current_receiver)) = 1]_vars
    /\ [][(/\ rpc = "rally"
           /\ rally_num < max_rally
           /\ Bounces(events, HalfOf(current_receiver)) >= 2) =>
             /\ rpc' = "done"
             /\ reach_checks' = reach_checks
             /\ shots' = shots
             /\ result' = RallyResult(current_hitter, "double_bounce", Len(shots))]_vars
    /\ [][(rpc = "reach" /\ shots' = shots) =>
             /\ rpc' = "done"
             /\ result' = RallyResult(current_hitter, "unreturned", Len(shots))]_vars
    /\ [][result'.reason = "unreturned" =>
             (rpc = "reach" /\ shots' = shots /\ result'.winner = current_hitter)]_vars

\* C13 witness: a return bounced twice on the other half and ended the rally
\* as a double bounce; only the serve had been offered to can_reach.
C13_Witness ==
    /\ rpc = "done"
    /\ result = RallyResult(current_hitter, "double_bounce", 2)
    /\ Len(shots) = 2
    /\ Bounces(events, HalfOf(current_receiver)) = 2
    /\ reach_checks = 1

\* a return has just been struck: the shot list grew in the rally loop
ReturnStruck == rpc = "reach" /\ shots' # shots

\* C14: a failed return gives the point to the player whose shot was being
\* returned, never to the returner: a return whose events hold an unclipped
\* NetEvent ends the rally with reason net; otherwise a return whose events
\* hold an OutEvent and no bounce on the half of the player whose shot was
\* being returned ends it with reason out; in every other case the roles swap
\* and the rally continues.
C14_FailedReturn ==
    [][ReturnStruck =>
          /\ shots' = Append(shots, RallyShot(current_receiver, "return"))
          /\ IF Has(events', NetEvent(FALSE))
             THEN /\ rpc' = "done"
                  /\ result' = RallyResult(current_hitter, "net", Len(shots'))
                  /\ result'.winner # shots'[Len(shots')].player
             ELSE IF Has(events', OutEvent) /\ Bounces(events', HalfOf(current_hitter)) = 0
             THEN /\ rpc' = "done"
                  /\ result' = RallyResult(current_hitter, "out", Len(shots'))
                  /\ result'.winner # shots'[Len(shots')].player
             ELSE /\ rpc' = "rally"
                  /\ result' = NoResult
                  /\ current_hitter' = current_receiver
                  /\ current_receiver' = current_hitter]_vars

\* C14 witness: the return of a serve went out without landing, and the
\* server got the point.
C14_Witness ==
    /\ rpc = "done"
    /\ Len(shots) = 2
    /\ shots[2] = RallyShot(Opponent(server), "return")
    /\ Has(events, OutEvent)
    /\ ~Has(events, NetEvent(FALSE))
    /\ Bounces(events, HalfOf(server)) = 0
    /\ result = RallyResult(server, "out", 2)

\* C15: simulate_rally never strikes more than 50 returns, so rally_length is
\* at most 51 in every result; reason timeout is returned only when exactly 50
\* returns have been struck (rally_length 51), the 50th of them neither
\* hitting the net body nor going out without landing on the other half.
C15_RallyCap ==
    /\ Len(shots) <= 51
    /\ \A i \in 1..Len(shots) : shots[i].shot_type = "return" => i >= 2
    /\ rpc = "done" => result.rally_length <= 51
    /\ result.reason = "timeout" =>
          /\ rpc = "done"
          /\ result.rally_length = 51
          /\ Len(shots) = 51
          /\ Cardinality({i \in 1..Len(shots) : shots[i].shot_type = "return"}) = 50
          /\ ~Has(events, NetEvent(FALSE))
          /\ ~(/\ Has(events, OutEvent)
               /\ Bounces(events, HalfOf(Opponent(shots[51].player))) = 0)

\* C15 witness: the 50th return clipped the net, landed on the other half and
\* the rally timed out.
C15_Witness ==
    /\ rpc = "done"
    /\ result.reason = "timeout"
    /\ result.rally_length = 51
    /\ rally_num = 50
    /\ shots[51].shot_type = "return"
    /\ Has(events, NetEvent(TRUE))
    /\ Bounces(events, HalfOf(Opponent(shots[51].player))) = 1

\* C16: simulate_rally generates at most 10 serves per rally, all of them
\* before the rally loop; when all 10 attempts were lets no 11th serve is
\* generated and the rally ends with the receiver winning, reason
\* net_on_serve, rally_length 1.
C16_LetsBounded ==
    /\ [](let_attempt <= 10)
    /\ [][rpc' = "serve_check" =>
            /\ rpc = "serve"
            /\ let_attempt < 10
            /\ let_attempt' = let_attempt + 1
            /\ shots' = <<RallyShot(server, "serve")>>]_vars
    /\ [][(shots' # shots /\ rpc' # "serve_check") =>
            shots'[Len(shots')].shot_type # "serve"]_vars
    /\ [][(rpc = "serve_check" /\ rpc' = "serve") =>
            (let_attempt' = let_attempt /\ result' = NoResult)]_vars
    /\ [][(rpc = "serve" /\ let_attempt = 10) =>
            /\ rpc' = "done"
            /\ shots' = shots
            /\ Len(shots) = 1
            /\ let_attempt' = 10
            /\ result' = RallyResult(Opponent(server), "net_on_serve", 1)]_vars

\* C16 witness: ten serves were generated, the tenth was a let like the others,
\* and the receiver got the point.
C16_Witness ==
    /\ rpc = "done"
    /\ let_attempt = 10
    /\ Has(events, NetEvent(TRUE))
    /\ ~Has(events, NetEvent(FALSE))
    /\ Bounces(events, HalfOf(Opponent(server))) >= 1
    /\ result = RallyResult(Opponent(server), "net_on_serve", 1)

\* C17: the first shot of a rally is a serve struck by the designated server,
\* every later shot is a return, and each shot is struck by the opponent of
\* the player who struck the shot before it; a returned result has a shot.
C17_ShotOrder ==
    /\ rpc = "done" => Len(shots) >= 1
    /\ Len(shots) >= 1 =>
          /\ shots[1].shot_type = "serve"
          /\ shots[1].player = server
    /\ \A i \in 2..Len(shots) :
          /\ shots[i].shot_type = "return"
          /\ shots[i].player = Opponent(shots[i - 1].player)

\* C17 witness: player 2 served, player 1 returned, player 2 returned that,
\* and the rally has ended.
C17_Witness ==
    /\ rpc = "done"
    /\ server = 2
    /\ Len(shots) = 3
    /\ shots[1].player = 2
    /\ shots[2].player = 1
    /\ shots[3].player = 2

\* the side of the point a score_point call has just recorded
SideScored == match'.history[Len(match'.history)].side

\* C18: on a Match without a winner score_point(match, "left") increases
\* p2_score by exactly 1 and leaves p1_score unchanged, score_point(match,
\* "right") increases p1_score by exactly 1 and leaves p2_score unchanged; no
\* call changes both scores or changes a score by more than 1.
C18_OnePointPerCall ==
    /\ [][(match.winner = None /\ match' # match) =>
            /\ SideScored \in {"left", "right"}
            /\ SideScored = "left" =>
                  /\ match'.p2_score = match.p2_score + 1
                  /\ match'.p1_score = match.p1_score
            /\ SideScored = "right" =>
                  /\ match'.p1_score = match.p1_score + 1
                  /\ match'.p2_score = match.p2_score]_vars
    /\ [][/\ match'.p1_score \in {match.p1_score, match.p1_score + 1}
          /\ match'.p2_score \in {match.p2_score, match.p2_score + 1}
          /\ match'.p1_score = match.p1_score \/ match'.p2_score = match.p2_score]_vars

\* C18 witness: the ball was scored on the right, then twice on the left, and
\* the score is 1-2.
C18_Witness ==
    /\ Len(match.history) = 3
    /\ match.history[1].side = "right"
    /\ match.history[2].side = "left"
    /\ match.history[3].side = "left"
    /\ match.p1_score = 1
    /\ match.p2_score = 2

\* C19: every score_point call on a Match without a winner appends exactly one
\* record at the end of history, holding the scores after the point, the
\* server who served it (the value before any rotation) and the side, and
\* leaves the earlier records unchanged; so len(history) = p1_score + p2_score
\* in every Match reachable from create_match().
C19_HistoryRecordsEveryPoint ==
    /\ [][(match.winner = None /\ match' # match) =>
            /\ Len(match'.history) = Len(match.history) + 1
            /\ SubSeq(match'.history, 1, Len(match.history)) = match.history
            /\ match'.history[Len(match'.history)] =
                  [p1     |-> match'.p1_score,
                   p2     |-> match'.p2_score,
                   server |-> match.server,
                   side   |-> IF match'.p2_score # match.p2_score
                              THEN "left" ELSE "right"]]_vars
    /\ [](Len(match.history) = match.p1_score + match.p2_score)

\* C19 witness: the second point made the serve rotate to player 2, and its
\* record names player 1, who served it; the third point is recorded too.
C19_Witness ==
    /\ Len(match.history) = 3
    /\ match.history[2] = [p1 |-> 1, p2 |-> 1, server |-> 1, side |-> "left"]
    /\ match.history[3] = [p1 |-> 2, p2 |-> 1, server |-> 2, side |-> "right"]
    /\ match.server = 2

\* the BounceEvents of an event list, counted directly
BounceEventsIn(ev) == Cardinality({i \in 1..Len(ev) : ev[i].type = "bounce"})

\* C20: simulate always returns and stops on exactly its three conditions: it
\* executes at most int(max_time/dt) steps; the trajectory is the initial
\* state followed by one snapshot per executed step; no step is executed once
\* the ball is dead; the ball is dead after the step in which the bounce count
\* first exceeds 10, so the event list never holds more than 11 BounceEvents;
\* and while the ball is alive and steps remain, the next step is executed.
C20_SimulateStops ==
    /\ [](sim_i <= steps)
    /\ [](spc # "idle" => Len(positions) = sim_i + 1)
    /\ []((spc # "idle" /\ sim_i = 0) =>
            positions = <<[alive |-> state.alive, t |-> state.t]>>)
    /\ [][sim_i' # sim_i =>
            /\ spc = "loop"
            /\ state.alive
            /\ sim_i < steps
            /\ sim_i' = sim_i + 1
            /\ Len(positions') = Len(positions) + 1
            /\ SubSeq(positions', 1, Len(positions)) = positions]_vars
    /\ [][(sim_i' # sim_i /\ BounceEventsIn(all_events') > 10) => ~state'.alive]_vars
    /\ [](BounceEventsIn(all_events) <= 11)
    /\ [](spc = "loop" => ENABLED NextPhysics)
    /\ [][(spc = "loop" /\ state.alive /\ sim_i < steps) => sim_i' = sim_i + 1]_vars
    /\ [][(spc = "loop" /\ spc' = "done") =>
            /\ sim_i = steps \/ ~state.alive
            /\ positions' = positions
            /\ all_events' = all_events]_vars
    /\ [](~state.alive =>
            \/ ~positions[Len(positions)].alive
            \/ BounceEventsIn(all_events) > 10
            \/ spc = "idle")

\* C20 witness: with 22 steps allowed the ball bounced in every other step,
\* the 21st step brought the 11th bounce, and simulate returned after it with
\* 22 snapshots.
C20_Witness ==
    /\ spc = "done"
    /\ steps = 22
    /\ sim_i = 21
    /\ Len(positions) = 22
    /\ BounceEventsIn(all_events) = 11
    /\ positions[22].alive
    /\ ~state.alive

\* the snapshot simulate appended last
LastSnapshot == positions[Len(positions)]

\* C21: in a trajectory of simulate only the last snapshot can be dead, and
\* an initially dead state yields a one-snapshot trajectory without events;
\* a dead ball is never alive again; each snapshot's t is the previous one's
\* plus dt; and the events are in non-decreasing order of t: the events of a
\* step carry the t of that step's snapshot, which is not before the t of the
\* event appended last.
C21_DeadStaysDeadTimeGrows ==
    /\ [](\A i \in 1..(Len(positions) - 1) :
             /\ positions[i].alive
             /\ positions[i + 1].t = positions[i].t + 1)
    /\ []((spc # "idle" /\ ~positions[1].alive) =>
             (Len(positions) = 1 /\ all_events = <<>>))
    /\ [][(spc # "idle" /\ ~state.alive) => ~state'.alive]_vars
    /\ [][(spc # "idle" /\ ~LastSnapshot.alive) =>
             (positions' = positions /\ all_events' = all_events)]_vars
    /\ [](spc # "idle" => (state.t = LastSnapshot.t /\ events_t <= state.t))
    /\ [](all_events = <<>> <=> events_t = -1)
    /\ [][all_events' # all_events =>
             /\ SubSeq(all_events', 1, Len(all_events)) = all_events
             /\ events_t' = positions'[Len(positions')].t
             /\ events_t' >= events_t]_vars

\* C21 witness: the ball bounced in one step, went out in a later one, and
\* the trajectory ends with its only dead snapshot.
C21_Witness ==
    /\ spc = "done"
    /\ Len(positions) >= 4
    /\ ~LastSnapshot.alive
    /\ all_events = <<BounceEvent("left"), OutEvent>>
    /\ events_t = LastSnapshot.t
    /\ events_t >= 3

\* a step of simulate in which the integration took the ball from one side of
\* x = 0 to x = 0 or to the other side
CrossingStep ==
    /\ sim_i' # sim_i
    /\ state.x # 0
    /\ net_crossings' # net_crossings

\* C22: when a step takes the ball's x across 0, in either direction, with
\* |y| within half the table width plus the net overhang and the height
\* below the clip zone, the step appends a NetEvent with clipped = false (after
\* the bounce of the step, if any), the ball is dead, x is back at its value
\* before the step, the step's snapshot is dead, and no snapshot or event
\* follows it.
C22_NetBodyHit ==
    /\ [][(CrossingStep /\ state.y <= 1 /\ state'.z <= 2) =>
            /\ Len(all_events') > Len(all_events)
            /\ \E i \in (Len(all_events) + 1)..Len(all_events') :
                  /\ all_events'[i] = NetEvent(FALSE)
                  /\ \A j \in (Len(all_events) + 1)..(i - 1) :
                        all_events'[j].type = "bounce"
            /\ ~state'.alive
            /\ state'.x = state.x
            /\ ~positions'[Len(positions')].alive
            /\ Len(positions') = Len(positions) + 1]_vars
    /\ [][(spc = "loop" /\ Has(all_events, NetEvent(FALSE))) =>
            /\ spc' = "done"
            /\ positions' = positions
            /\ all_events' = all_events
            /\ state' = state]_vars

\* C22 witness: a ball struck from the right half went into the net body
\* from right to left, and the trajectory ended with that step.
C22_Witness ==
    /\ spc = "done"
    /\ state.x = 1
    /\ state.y = 0
    /\ net_crossings = 1
    /\ ~state.alive
    /\ all_events = <<BounceEvent("right"), NetEvent(FALSE)>>
    /\ Len(positions) >= 3

\* the frames with detected = true and a position, in their order
RECURSIVE DetectedOnly(_)
DetectedOnly(fs) ==
    IF fs = <<>> THEN <<>>
    ELSE (IF Head(fs).detected /\ Head(fs).pos_detected # NoPos
          THEN <<Head(fs)>> ELSE <<>>) \o DetectedOnly(Tail(fs))

\* C23: detect_bounces, detect_net and detect_out depend on the frames with
\* detected = true and a position only.  Every frame list gives the results
\* of the list of its detected frames, so two lists with the same detected
\* frames give the same results, whatever their other frames hold; the
\* functions are applied to the frames and to nothing else.
C23_OnlyDetectedFrames ==
    jpc = "judged" =>
        /\ bounces = detect_bounces(DetectedOnly(frames))
        /\ net_events = detect_net(DetectedOnly(frames))
        /\ is_out = detect_out(DetectedOnly(frames))

\* C23 witness: four frames were judged, of which the second carries a
\* position without being detected; the other three make a bounce and a net
\* event, and the ball is not out.
C23_Witness ==
    /\ jpc = "judged"
    /\ Len(frames) = 4
    /\ ~frames[2].detected /\ frames[2].pos_detected # NoPos
    /\ Len(DetectedOnly(frames)) = 3
    /\ Len(bounces) = 1
    /\ Len(net_events) = 1
    /\ ~is_out

\* C24: for every three consecutive detected frames whose middle frame is
\* within 0.15 m of x = 0 and whose time gaps are positive, detect_net reports
\* a net event at the middle frame when the horizontal velocity changes sign
\* from the gap before to the gap after, in either direction, and when the
\* horizontal speed after is less than half the speed before.
C24_NetFlagged ==
    jpc = "judged" =>
        LET d == DetectedOnly(frames)
        IN  \A i \in 2..(Len(d) - 1) :
               LET dt_before == d[i].t - d[i - 1].t
                   dt_after  == d[i + 1].t - d[i].t
                   dx_before == d[i].pos_detected[1] - d[i - 1].pos_detected[1]
                   dx_after  == d[i + 1].pos_detected[1] - d[i].pos_detected[1]
               IN  (/\ Abs(d[i].pos_detected[1]) < 1500
                    /\ dt_before > 0 /\ dt_after > 0
                    /\ \/ dx_before * dx_after < 0
                       \/ 2 * Abs(dx_after) * dt_before < Abs(dx_before) * dt_after)
                   => \E k \in 1..Len(net_events) :
                         /\ net_events[k].t = d[i].t
                         /\ net_events[k].pos = d[i].pos_detected

\* C25: _find_position_at_time returns None for an empty trajectory and for
\* a t before the first or after the last sample, and otherwise a sample
\* whose time is closest to t: no sample of the trajectory is strictly closer.
C25_NearestSample ==
    cpc = "done" =>
        IF \/ cam_positions = <<>>
           \/ cam_t < cam_positions[1]
           \/ cam_t > cam_positions[Len(cam_positions)]
        THEN found = NotFound
        ELSE /\ \E i \in 1..Len(cam_positions) : cam_positions[i] = found
             /\ \A j \in 1..Len(cam_positions) :
                   ~(Abs(cam_positions[j] - cam_t) < Abs(found - cam_t))

\* the player who struck the last shot of the rally
LastStriker == shots[Len(shots)].player

\* C26: in a returned RallyResult the reason fixes the winner relative to the
\* last shot of shots: with net, net_on_serve, serve_fault and out the winner
\* is the opponent of the player who struck it, with ace, winner, unreturned
\* and double_bounce the winner is that player; no other reason but timeout
\* occurs.
C26_ReasonFixesWinner ==
    rpc = "done" =>
        /\ Len(shots) >= 1
        /\ result.reason \in {"net", "net_on_serve", "serve_fault", "out"}
              => result.winner = Opponent(LastStriker)
        /\ result.reason \in {"ace", "winner", "unreturned", "double_bounce"}
              => result.winner = LastStriker
        /\ result.reason \in {"net", "net_on_serve", "serve_fault", "out", "ace",
                              "winner", "unreturned", "double_bounce", "timeout"}

\* C26 witness: a rally of three shots ended by a double bounce of the third
\* shot, struck by the server, who wins.
C26_Witness ==
    /\ rpc = "done"
    /\ Len(shots) = 3
    /\ result.reason = "double_bounce"
    /\ LastStriker = server
    /\ result.winner = server
    /\ Bounces(events, HalfOf(Opponent(server))) = 2

\* C27: an iteration of the rally loop that finds no bounce on the current
\* receiver's half has no OutEvent in the shot's events and awards the hitter
\* with reason winner; a result with reason out is decided either by the serve
\* check, with rally_length 1, or right after a return was struck.
C27_LoopNeverOut ==
    /\ [][(rpc = "rally" /\ rally_num' = rally_num + 1
             /\ Bounces(events, HalfOf(current_receiver)) = 0)
          => /\ ~Has(events, OutEvent)
             /\ rpc' = "done"
             /\ result' = RallyResult(current_hitter, "winner", Len(shots))]_vars
    /\ [][(result'.reason = "out" /\ result.reason # "out")
          => \/ rpc = "serve_check" /\ result'.rally_length = 1 /\ Len(shots) = 1
             \/ rpc = "reach" /\ shots' # shots /\ events' # <<>>
                              /\ Has(events', OutEvent)]_vars

\* C27 witness: the second return left no bounce on the receiver's half and
\* no OutEvent, and the loop awarded its striker with reason winner.
C27_Witness ==
    /\ rpc = "done"
    /\ Len(shots) = 3
    /\ rally_num = 3
    /\ Bounces(events, HalfOf(Opponent(LastStriker))) = 0
    /\ ~Has(events, OutEvent)
    /\ result = RallyResult(LastStriker, "winner", 3)

\* C28: in a returned RallyResult rally_length is the length of shots, and
\* shots is one serve, struck by the server, followed by returns only; a let
\* leaves nothing in shots, so a rally decided on the serve has rally_length 1
\* and one shot however many lets were replayed.
C28_LengthIsShots ==
    /\ [](rpc = "done" =>
            /\ result.rally_length = Len(shots)
            /\ Len(shots) >= 1
            /\ shots[1] = [player |-> server, shot_type |-> "serve"]
            /\ \A i \in 2..Len(shots) : shots[i].shot_type = "return"
            /\ rally_num = 0 => Len(shots) = 1)
    /\ [][(rpc = "serve_check" /\ rpc' = "serve") => Len(shots) = 1]_vars
    /\ [][(rpc = "serve" /\ rpc' = "serve_check") => Len(shots') = 1]_vars

\* C28 witness: after three lets the fourth serve is an ace, and the result
\* has one shot and rally_length 1.
C28_Witness ==
    /\ rpc = "done"
    /\ let_attempt = 4
    /\ result.reason = "ace"
    /\ result.rally_length = 1
    /\ Len(shots) = 1

\* C29: in simulate_game the k-th rally is served by the player the match
\* designates: the striker of the first shot of rallies[k] is the server
\* recorded in match.history[k], which is match.server as it stood when the
\* rally was played, one history record being written per rally.
C29_RallyServers ==
    /\ [](/\ Len(match.history) = Len(rallies)
          /\ \A k \in 1..Len(rallies) :
                rallies[k].first_player = match.history[k].server)
    /\ [][rallies' # rallies =>
            /\ Len(rallies') = Len(rallies) + 1
            /\ rallies'[Len(rallies')].first_player = match.server
            /\ match'.history[Len(rallies')].server = match.server]_vars

\* C29 witness: a game of twenty rallies was returned in which the service
\* changed hands: the first two rallies were served by player 1, the next by
\* player 2.
C29_Witness ==
    /\ gpc = "done"
    /\ Len(rallies) = 20
    /\ rallies[1].first_player = 1
    /\ rallies[2].first_player = 1
    /\ rallies[3].first_player = 2
    /\ match.history[3].server = 2
    /\ rallies[20].first_player = match.history[20].server

\* C30: a match with a winner has a final score of 11 to k with k <= 9 or of
\* n + 2 to n with n >= 10, the winner holding the higher score; in a match
\* without a winner both scores are at most 10 or they differ by at most 1.
C30_FinalScoreShapes ==
    LET hi_score == IF match.p1_score >= match.p2_score THEN match.p1_score ELSE match.p2_score
        lo_score == IF match.p1_score >= match.p2_score THEN match.p2_score ELSE match.p1_score
    IN  /\ match.winner # None =>
             /\ \/ hi_score = 11 /\ lo_score <= 9
                \/ lo_score >= 10 /\ hi_score = lo_score + 2
             /\ match.winner = 1 <=> match.p1_score > match.p2_score
             /\ match.winner \in {1, 2}
        /\ match.winner = None =>
             \/ hi_score <= 10
             \/ hi_score - lo_score <= 1

\* C30 witness: a match won 12 to 10 by player 2 after 10 all.
C30_Witness ==
    /\ match.winner = 2
    /\ match.p1_score = 10
    /\ match.p2_score = 12
    /\ Len(match.history) = 22

====
